---------------------------- MODULE Spec2Model ----------------------------
(***************************************************************************)
(* A model of src/utilities/task_automator.py: backup_directory,          *)
(* clean_directory and organize_files, each as a state machine over a      *)
(* small file system.                                                      *)
(*                                                                         *)
(* A file or directory name is a sequence of one-character strings, a path *)
(* is a sequence of names (the absolute path /r/sub/c.t is                 *)
(* <<R, SUB, C_T>>), and the text of a path, which fnmatch reads, is the   *)
(* names joined by "/".                                                    *)
(***************************************************************************)
EXTENDS Integers, Sequences, FiniteSets, TLC

\* ------------------------------------------------------------------ names

R == <<"r">>
B == <<"b">>
BK == <<"b", "k">>
A_T == <<"a", ".", "t">>
B_L == <<"b", ".", "l">>
C_T == <<"c", ".", "t">>
SUB == <<"s", "u", "b">>
TMP == <<"t", "m", "p">>
X_L == <<"x", ".", "l">>
N == <<"n">>
DOTDOT == <<".", ".">>

\* Python's None, where a path or a name may stand: the empty sequence, which
\* no path and no name is
None == <<>>

\* ------------------------------------------------------------ os.path

RECURSIVE PathStr(_)
\* the text of an absolute path: "/" + name for every segment
PathStr(p) ==
    IF p = <<>> THEN <<>> ELSE <<"/">> \o Head(p) \o PathStr(Tail(p))

\* os.path.join(root, name)
Join(root, name) == Append(root, name)

IsPrefix(p, q) == Len(p) <= Len(q) /\ SubSeq(q, 1, Len(p)) = p

RECURSIVE CommonLen(_, _)
\* the length of the longest common prefix of two paths (os.path.commonprefix
\* over the segment lists, as relpath computes it)
CommonLen(p, q) ==
    IF p = <<>> \/ q = <<>> \/ Head(p) # Head(q) THEN 0
    ELSE 1 + CommonLen(Tail(p), Tail(q))

\* os.path.relpath(path, start), as the list of its "/"-separated segments:
\* one ".." for every segment of start below the common prefix, then the rest
\* of path
RelPath(path, start) ==
    LET i == CommonLen(start, path)
    IN  [k \in 1..(Len(start) - i) |-> DOTDOT] \o SubSeq(path, i + 1, Len(path))

\* ------------------------------------------------------------- fnmatch

RECURSIVE ClassEnd(_, _)
\* fnmatch.translate: the index of the "]" that closes the class opened at
\* pat[i-1] = "[", searching from j; 0 when there is none (then "[" is a
\* literal).  The caller skips a leading "!" and a leading "]".
ClassEnd(pat, j) ==
    IF j > Len(pat) THEN 0
    ELSE IF pat[j] = "]" THEN j
    ELSE ClassEnd(pat, j + 1)

\* where the search for the closing "]" starts for a class opened at pat[i]
ClassScanFrom(pat, i) ==
    LET j1 == IF i + 1 <= Len(pat) /\ pat[i + 1] = "!" THEN i + 2 ELSE i + 1
    IN  IF j1 <= Len(pat) /\ pat[j1] = "]" THEN j1 + 1 ELSE j1

\* whether character c is in the class pat[i..e] ("[" ... "]"), "!" negating.
\* Ranges (a-c) are not modelled: no pattern of the model holds a "-".
InClass(c, pat, i, e) ==
    LET neg == pat[i + 1] = "!"
        from == IF neg THEN i + 2 ELSE i + 1
        members == {pat[k] : k \in from..(e - 1)}
    IN  IF neg THEN c \notin members ELSE c \in members

RECURSIVE MatchFrom(_, _, _, _)
\* the regular expression fnmatch.translate builds, matched against the whole
\* of s: "*" is ".*" (it crosses "/"), "?" is ".", "[...]" a class
MatchFrom(s, i, pat, j) ==
    IF j > Len(pat) THEN i > Len(s)
    ELSE IF pat[j] = "*"
      THEN MatchFrom(s, i, pat, j + 1)
           \/ (i <= Len(s) /\ MatchFrom(s, i + 1, pat, j))
    ELSE IF pat[j] = "?"
      THEN i <= Len(s) /\ MatchFrom(s, i + 1, pat, j + 1)
    ELSE IF pat[j] = "[" /\ ClassEnd(pat, ClassScanFrom(pat, j)) # 0
      THEN LET e == ClassEnd(pat, ClassScanFrom(pat, j))
           IN  i <= Len(s) /\ InClass(s[i], pat, j, e)
               /\ MatchFrom(s, i + 1, pat, e + 1)
    ELSE i <= Len(s) /\ s[i] = pat[j] /\ MatchFrom(s, i + 1, pat, j + 1)

\* glob.fnmatch.fnmatch(name, pat) on a POSIX system (normcase is the identity)
fnmatch(name, pat) == MatchFrom(name, 1, pat, 1)


\* ------------------------------------------------------------ the bounds

\* the most files a source tree holds
MaxFiles == 3
\* the most exclusion patterns of one call
MaxPatterns == 2
\* the most backup_directory calls of a behaviour that makes several
MaxBackupRuns == 3

\* the seconds the clock may show; two calls may read the same second
ClockValues == {0, 1}

\* ------------------------------------------------- backup_directory: state

VARIABLES
    fsFiles,          \* the regular files of the file system (absolute paths)
    fsDirs,           \* its directories
    zips,             \* the archive files: absolute path -> set of entry names
    source_path,      \* Path(source_dir).expanduser().resolve()
    dest_path,        \* Path(dest_dir).expanduser().resolve()
    exclude_patterns, \* the exclusion patterns (a set: any() reads no order)
    now,              \* the clock, in seconds
    timestamp,        \* the second strftime rendered at line 42
    backup_path,      \* line 46
    file_count,       \* line 51
    walk,             \* os.walk: the directories still to visit, next first
    root,             \* os.walk: the directory being listed
    files,            \* os.walk: the files of root not yet looked at
    pc,               \* "idle" between calls, "walk" inside the loop of line 53
    result,           \* what the last call returned
    outcome,          \* how the last call ended: "ok", "read_error",
                      \* "not_found", "not_a_directory", "exists",
                      \* "copy_error"
    calls_left,       \* the calls the behaviour may still make
    zip_file,         \* the zip_file argument of the call: None is copy mode
    copies,           \* the directories copy mode made: absolute path -> the
                      \* files in it, relative to it
    backups,          \* the paths calls have returned whose backup no later
                      \* call has reopened
    archived,         \* every archive a zip-mode call has returned: its
                      \* path, the entries it held then, and the files that
                      \* were under the source when the call began
    tree_before       \* the files under the source when the zip-mode call
                      \* in progress or last made began

bvars == <<fsFiles, fsDirs, zips, source_path, dest_path, exclude_patterns, now,
           timestamp, backup_path, file_count, walk, root, files, pc, result,
           outcome, calls_left, zip_file, copies, backups, archived,
           tree_before>>

\* ------------------------------------------------- clean_directory: state

VARIABLES
    cfs,              \* the file system: absolute path -> [kind, mtime, size,
                      \* locked]; os.remove fails on a locked file
    dir_path,         \* Path(directory).expanduser().resolve()
    pattern,          \* the glob pattern, as the list of its "/"-separated parts
    older_than,       \* <<days>>, or <<>> for None
    dry_run,          \* the dry_run argument of the call in progress or last made
    clock,            \* what time.time() last returned, in seconds
    current_time,     \* line 116
    files_to_delete,  \* line 115: a set, iterated in the order scandir gave
    total_size,       \* line 127
    deleted_count,    \* line 140
    pending,          \* the files of files_to_delete the loop of line 141 has
                      \* not reached yet
    clean_pc,         \* "idle" between calls, "remove" inside the loop of line 141
    clean_result,     \* what the last call returned
    clean_outcome,    \* how the last call ended: "dry", "live", "error"
    fs_before,        \* the file system when the call in progress or last made
                      \* began
    dry_report,       \* <<[fs, time, result]>> of the last dry run, or <<>>
    clean_calls_left  \* the calls the behaviour may still make

cvars == <<cfs, dir_path, pattern, older_than, dry_run, clock, current_time,
           files_to_delete, total_size, deleted_count, pending, clean_pc,
           clean_result, clean_outcome, fs_before, dry_report,
           clean_calls_left>>

\* -------------------------------------------------- organize_files: state

VARIABLES
    ofs,              \* the regular files: absolute path -> content
    odirs,            \* the directories
    org_dir_path,     \* Path(directory).expanduser().resolve()
    org_clock,        \* the second datetime.now() last showed
    organized_count,  \* line 219
    glob_left,        \* the entries dir_path.glob('*') listed and the loop of
                      \* line 221 has not reached yet
    org_pc,           \* "idle" between calls, "loop" inside the loop of line 221
    org_result,       \* what the last call returned
    org_outcome,      \* how the last call ended: "ok", "error"
    org_run,          \* the number of the call in progress or last made
    moved,            \* every move made: [content, name, run, to]
    next_content,     \* the content the next file to arrive holds
    org_calls_left,   \* the calls the behaviour may still make
    org_before,       \* the files and directories when the call in progress
                      \* or last made began
    org_settled,      \* the last call returned from line 243 and no file
                      \* has arrived since
    org_rerun,        \* org_settled, as it was when the call began
    org_failed        \* the file whose move raised in the call, or None

ovars == <<ofs, odirs, org_dir_path, org_clock, organized_count, glob_left,
           org_pc, org_result, org_outcome, org_run, moved, next_content,
           org_calls_left, org_before, org_settled, org_rerun, org_failed>>

vars == <<bvars, cvars, ovars>>

\* no organize_files call is made
OrganizeParked ==
    /\ ofs = <<>>
    /\ odirs = {}
    /\ org_dir_path = None
    /\ org_clock = 0
    /\ organized_count = 0
    /\ glob_left = {}
    /\ org_pc = "idle"
    /\ org_result = 0
    /\ org_outcome = "none"
    /\ org_run = 0
    /\ moved = {}
    /\ next_content = 1
    /\ org_calls_left = 0
    /\ org_before = [files |-> <<>>, dirs |-> {}]
    /\ org_settled = FALSE
    /\ org_rerun = FALSE
    /\ org_failed = None

\* no clean_directory call is made
CleanParked ==
    /\ cfs = <<>>
    /\ dir_path = None
    /\ pattern = <<>>
    /\ older_than = <<>>
    /\ dry_run = FALSE
    /\ clock = 0
    /\ current_time = 0
    /\ files_to_delete = {}
    /\ total_size = 0
    /\ deleted_count = 0
    /\ pending = {}
    /\ clean_pc = "idle"
    /\ clean_result = <<0, 0>>
    /\ clean_outcome = "none"
    /\ fs_before = <<>>
    /\ dry_report = <<>>
    /\ clean_calls_left = 0

\* no backup_directory call is made
BackupParked ==
    /\ fsFiles = {}
    /\ fsDirs = {}
    /\ zips = <<>>
    /\ source_path = None
    /\ dest_path = None
    /\ exclude_patterns = {}
    /\ now = 0
    /\ timestamp = 0
    /\ backup_path = None
    /\ file_count = 0
    /\ walk = <<>>
    /\ root = None
    /\ files = {}
    /\ pc = "idle"
    /\ result = None
    /\ outcome = "none"
    /\ calls_left = 0
    /\ zip_file = None
    /\ copies = <<>>
    /\ backups = {}
    /\ archived = {}
    /\ tree_before = {}

\* ------------------------------------------------ backup_directory: inputs

\* the files a source tree may hold, relative to the source root
FilePool ==
    { <<A_T>>, <<B_L>>, <<SUB, C_T>>, <<TMP, A_T>>, <<TMP, SUB, B_L>>,
      <<X_L, A_T>> }

\* the exclusion patterns a call may give:
\*   *.l   tmp   */tmp   /r/sub/*   [ab].?
PatternPool ==
    { <<"*", ".", "l">>,
      <<"t", "m", "p">>,
      <<"*", "/", "t", "m", "p">>,
      <<"/", "r", "/", "s", "u", "b", "/", "*">>,
      <<"[", "a", "b", "]", ".", "?">> }

\* source_dir: the tree /r, the missing /n, and /r/a.t, a regular file when
\* the tree holds it
SourcePool == { <<R>>, <<N>>, <<R, A_T>> }

\* the destination directories: /b, outside the source tree, and /r/bk, in it
DestPool == { <<B>>, <<R, BK>> }

\* zip_file, as the caller gives it
ZipFileArg == <<"z">>
DotZip == <<".", "z", "i", "p">>

BoundedSubsets(S, n) == {T \in SUBSET S : Cardinality(T) <= n}

\* every non-empty prefix of path p, p included
Ancestors(p) == {SubSeq(p, 1, k) : k \in 1..Len(p)}

Parent(p) == SubSeq(p, 1, Len(p) - 1)

\* the sequences that list the elements of S once each
Perms(S) ==
    {s \in [1..Cardinality(S) -> S] : \A i, j \in 1..Cardinality(S) :
                                          i # j => s[i] # s[j]}

\* strftime("%Y%m%d_%H%M%S") of second t: one text per second
Strftime(t) == IF t = 0 THEN <<"0">> ELSE IF t = 1 THEN <<"1">>
               ELSE IF t = 2 THEN <<"2">> ELSE <<"3">>

EndsWith(s, suffix) ==
    Len(s) >= Len(suffix)
    /\ SubSeq(s, Len(s) - Len(suffix) + 1, Len(s)) = suffix

\* line 45
ZipFilename(zf) ==
    IF EndsWith(zf, DotZip) THEN zf ELSE zf \o DotZip

\* line 46: dest_path / f"{source_path.name}_{timestamp}_{zip_filename}"
BackupPath(dest, source, ts, zf) ==
    Join(dest, source[Len(source)] \o <<"_">> \o Strftime(ts) \o <<"_">>
               \o ZipFilename(zf))

\* everything the file system holds as a regular file: the tree's files and
\* the archives
AllFiles == fsFiles \cup DOMAIN zips

\* os.scandir(top), as os.walk splits it
ChildDirs(top) == {d \in fsDirs : Len(d) = Len(top) + 1 /\ IsPrefix(top, d)}
ChildFiles(top) == {f \in AllFiles : Len(f) = Len(top) + 1 /\ IsPrefix(top, f)}

\* lines 54-58: the sub-directories os.walk keeps, given the patterns
PruneDirs(top, dirs, patterns) ==
    IF patterns # {}
    THEN {d \in dirs : ~ \E pat \in patterns : fnmatch(PathStr(d), pat)}
    ELSE dirs

\* lines 63-66: whether a file is skipped
FileExcluded(file_path, patterns) ==
    patterns # {} /\ \E pat \in patterns : fnmatch(PathStr(file_path), pat)

\* relpath with its arguments swapped
ArcnameSwapped(file_path, source) == RelPath(source, file_path)

\* line 69
Arcname(file_path, source) == RelPath(file_path, source)

\* the archive at path p created empty, or truncated (ZipFile(p, 'w'))
ZipCreate(p) == [q \in DOMAIN zips \cup {p} |-> IF q = p THEN {} ELSE zips[q]]

\* zipf.write(file_path, arcname)
ZipAdd(p, arcname) == [zips EXCEPT ![p] = @ \cup {arcname}]

\* lines 75-76: dest_path / f"{source_path.name}_{timestamp}"
CopyPath(dest, source, ts) ==
    Join(dest, source[Len(source)] \o <<"_">> \o Strftime(ts))

\* os.path.exists, over everything the file system holds
PathExists(p) == p \in fsDirs \/ p \in AllFiles \/ p \in DOMAIN copies

\* the destination made before the source is looked at
DirsOnNotFoundMade(dirs, dest) == dirs \cup Ancestors(dest)

\* lines 38-39 raise before line 41 makes the destination: the directories
\* after a call whose source is missing
DirsOnNotFound(dirs, dest) == dirs

\* shutil.ignore_patterns (line 78): whether a name listed in a directory,
\* of a file or of a sub-directory, matches one of the patterns
Ignored(name, patterns) == \E pat \in patterns : fnmatch(name, pat)

\* lines 78-79: the files copytree copies, relative to the source: those with
\* no ignored name on the way down from the source
CopyIncluded(source, patterns) ==
    {RelPath(f, source) :
        f \in {g \in AllFiles :
                  /\ IsPrefix(source, g)
                  /\ g # source
                  /\ \A k \in (Len(source) + 1)..Len(g) :
                        ~ Ignored(g[k], patterns)}}

\* the directory at path p made and filled
CopyTree(p, content) ==
    [q \in DOMAIN copies \cup {p} |-> IF q = p THEN content ELSE copies[q]]

\* a copytree that fills a directory that is there already
OnExistingMerge(p, content) == [copies EXCEPT ![p] = @ \cup content]

\* line 78 gives no dirs_exist_ok: os.makedirs(dst) raises FileExistsError
\* before anything is copied
OnExisting(p, content) == copies

BackupInit ==
    /\ \E tree \in BoundedSubsets(FilePool, MaxFiles) :
          /\ fsFiles = {<<R>> \o f : f \in tree}
          /\ fsDirs = {<<R>>} \cup UNION {Ancestors(Parent(<<R>> \o f)) : f \in tree}
    /\ zips = <<>>
    /\ source_path \in SourcePool
    /\ dest_path \in DestPool
    /\ exclude_patterns \in BoundedSubsets(PatternPool, MaxPatterns)
    /\ now = 0
    /\ timestamp = 0
    /\ backup_path = None
    /\ file_count = 0
    /\ walk = <<>>
    /\ root = None
    /\ files = {}
    /\ pc = "idle"
    /\ result = None
    /\ outcome = "none"
    /\ calls_left = 1
    /\ zip_file = None
    /\ copies = <<>>
    /\ backups = {}
    /\ archived = {}
    /\ tree_before = {}
    /\ CleanParked
    /\ OrganizeParked

\* lines 35-53 in zip mode: resolve, check the source, create the destination,
\* read the clock, open the archive for writing
BackupStart ==
    /\ pc = "idle"
    /\ calls_left > 0
    /\ calls_left' = calls_left - 1
    /\ source_path \in fsDirs \cup AllFiles
    /\ \E t \in ClockValues :
          /\ t >= now
          /\ now' = t
          /\ timestamp' = t
          /\ backup_path' = BackupPath(dest_path, source_path, t, ZipFileArg)
    /\ zip_file' = ZipFileArg
    /\ fsDirs' = fsDirs \cup Ancestors(dest_path)
    /\ zips' = ZipCreate(backup_path')
    /\ backups' = backups \ {backup_path'}
    /\ UNCHANGED copies
    /\ file_count' = 0
    /\ walk' = <<source_path>>
    /\ root' = None
    /\ files' = {}
    /\ pc' = "walk"
    /\ result' = None
    /\ outcome' = "none"
    /\ UNCHANGED <<fsFiles, source_path, dest_path, exclude_patterns>>
    /\ tree_before' = {f \in AllFiles : IsPrefix(source_path, f)}
    /\ UNCHANGED archived
    /\ UNCHANGED <<cvars, ovars>>

\* line 53: os.walk lists the next directory, lines 54-58 prune its
\* sub-directories in place, and the walk will descend into those kept, in
\* the order scandir gave them
WalkDir ==
    /\ pc = "walk"
    /\ files = {}
    /\ walk # <<>>
    /\ LET top == Head(walk)
           kept == PruneDirs(top, ChildDirs(top), exclude_patterns)
       IN  /\ root' = top
           /\ files' = ChildFiles(top)
           /\ \E order \in Perms(kept) : walk' = order \o Tail(walk)
    /\ UNCHANGED <<fsFiles, fsDirs, zips, source_path, dest_path,
                   exclude_patterns, now, timestamp, backup_path, file_count,
                   pc, result, outcome, calls_left>>
    /\ UNCHANGED <<zip_file, copies, backups>>
    /\ UNCHANGED <<archived, tree_before>>
    /\ UNCHANGED <<cvars, ovars>>

\* lines 60-67: the next file of the directory matches a pattern
ZipSkip ==
    /\ pc = "walk"
    /\ \E file_path \in files :
          /\ FileExcluded(file_path, exclude_patterns)
          /\ files' = files \ {file_path}
    /\ UNCHANGED <<fsFiles, fsDirs, zips, source_path, dest_path,
                   exclude_patterns, now, timestamp, backup_path, file_count,
                   walk, root, pc, result, outcome, calls_left>>
    /\ UNCHANGED <<zip_file, copies, backups>>
    /\ UNCHANGED <<archived, tree_before>>
    /\ UNCHANGED <<cvars, ovars>>

\* lines 60-71: the next file is written under its arcname
ZipWrite ==
    /\ pc = "walk"
    /\ \E file_path \in files :
          /\ ~ FileExcluded(file_path, exclude_patterns)
          /\ zips' = ZipAdd(backup_path, Arcname(file_path, source_path))
          /\ files' = files \ {file_path}
    /\ file_count' = file_count + 1
    /\ UNCHANGED <<fsFiles, fsDirs, source_path, dest_path, exclude_patterns,
                   now, timestamp, backup_path, walk, root, pc, result,
                   outcome, calls_left>>
    /\ UNCHANGED <<zip_file, copies, backups>>
    /\ UNCHANGED <<archived, tree_before>>
    /\ UNCHANGED <<cvars, ovars>>

\* line 70 raises (the file cannot be read): the with block of line 50 closes
\* the archive, which stays where it is, and lines 89-91 return None
ZipWriteFails ==
    /\ pc = "walk"
    /\ \E file_path \in files : ~ FileExcluded(file_path, exclude_patterns)
    /\ pc' = "idle"
    /\ result' = None
    /\ outcome' = "read_error"
    /\ walk' = <<>>
    /\ root' = None
    /\ files' = {}
    /\ UNCHANGED calls_left
    /\ UNCHANGED <<fsFiles, fsDirs, zips, source_path, dest_path,
                   exclude_patterns, now, timestamp, backup_path, file_count>>
    /\ UNCHANGED <<zip_file, copies, backups>>
    /\ UNCHANGED <<archived, tree_before>>
    /\ UNCHANGED <<cvars, ovars>>

\* lines 73 and 87: the walk is over, the archive is closed and its path
\* returned
BackupDone ==
    /\ pc = "walk"
    /\ files = {}
    /\ walk = <<>>
    /\ pc' = "idle"
    /\ result' = backup_path
    /\ outcome' = "ok"
    /\ root' = None
    /\ UNCHANGED calls_left
    /\ UNCHANGED <<fsFiles, fsDirs, zips, source_path, dest_path,
                   exclude_patterns, now, timestamp, backup_path, file_count,
                   walk, files>>
    /\ backups' = backups \cup {backup_path}
    /\ UNCHANGED <<zip_file, copies>>
    /\ archived' = archived \cup {[path |-> backup_path,
                                    entries |-> zips[backup_path],
                                    tree |-> tree_before]}
    /\ UNCHANGED tree_before
    /\ UNCHANGED <<cvars, ovars>>

\* lines 38-39 and 89-91: the source does not exist; FileNotFoundError is
\* raised before line 41 and None is returned
BackupNotFound ==
    /\ pc = "idle"
    /\ calls_left > 0
    /\ calls_left' = calls_left - 1
    /\ source_path \notin fsDirs \cup AllFiles
    /\ zip_file' \in {None, ZipFileArg}
    /\ fsDirs' = DirsOnNotFound(fsDirs, dest_path)
    /\ result' = None
    /\ outcome' = "not_found"
    /\ UNCHANGED <<fsFiles, zips, source_path, dest_path, exclude_patterns,
                   now, timestamp, backup_path, file_count, walk, root, files,
                   pc, copies, backups>>
    /\ UNCHANGED <<archived, tree_before>>
    /\ UNCHANGED <<cvars, ovars>>

\* lines 35-42 and 74-87, copy mode: copytree makes the backup directory and
\* copies the files that are not ignored.  (With the destination inside the
\* source copytree descends into its own output; such calls are not made.)
BackupCopy ==
    /\ pc = "idle"
    /\ calls_left > 0
    /\ calls_left' = calls_left - 1
    /\ source_path \in fsDirs
    /\ ~ IsPrefix(source_path, dest_path)
    /\ \E t \in ClockValues :
          /\ t >= now
          /\ now' = t
          /\ timestamp' = t
          /\ backup_path' = CopyPath(dest_path, source_path, t)
    /\ ~ PathExists(backup_path')
    /\ zip_file' = None
    /\ fsDirs' = fsDirs \cup Ancestors(dest_path)
    /\ LET content == CopyIncluded(source_path, exclude_patterns)
       IN  /\ copies' = CopyTree(backup_path', content)
           /\ file_count' = Cardinality(content)
    /\ backups' = backups \cup {backup_path'}
    /\ result' = backup_path'
    /\ outcome' = "ok"
    /\ UNCHANGED <<fsFiles, zips, source_path, dest_path, exclude_patterns,
                   walk, root, files, pc>>
    /\ UNCHANGED <<archived, tree_before>>
    /\ UNCHANGED <<cvars, ovars>>

\* copy mode, one file cannot be read: copytree copies the others, raises
\* shutil.Error at its end, and lines 89-91 return None
BackupCopyFails ==
    /\ pc = "idle"
    /\ calls_left > 0
    /\ calls_left' = calls_left - 1
    /\ source_path \in fsDirs
    /\ ~ IsPrefix(source_path, dest_path)
    /\ \E t \in ClockValues :
          /\ t >= now
          /\ now' = t
          /\ timestamp' = t
          /\ backup_path' = CopyPath(dest_path, source_path, t)
    /\ ~ PathExists(backup_path')
    /\ zip_file' = None
    /\ fsDirs' = fsDirs \cup Ancestors(dest_path)
    /\ \E bad \in CopyIncluded(source_path, exclude_patterns) :
          copies' = CopyTree(backup_path',
                             CopyIncluded(source_path, exclude_patterns) \ {bad})
    /\ result' = None
    /\ outcome' = "copy_error"
    /\ UNCHANGED <<fsFiles, zips, source_path, dest_path, exclude_patterns,
                   file_count, walk, root, files, pc, backups>>
    /\ UNCHANGED <<archived, tree_before>>
    /\ UNCHANGED <<cvars, ovars>>

\* copy mode, the backup directory of this second is there already: copytree
\* raises FileExistsError and lines 89-91 return None
BackupCopyExists ==
    /\ pc = "idle"
    /\ calls_left > 0
    /\ calls_left' = calls_left - 1
    /\ source_path \in fsDirs
    /\ ~ IsPrefix(source_path, dest_path)
    /\ \E t \in ClockValues :
          /\ t >= now
          /\ now' = t
          /\ timestamp' = t
          /\ backup_path' = CopyPath(dest_path, source_path, t)
    /\ backup_path' \in DOMAIN copies
    /\ zip_file' = None
    /\ fsDirs' = fsDirs \cup Ancestors(dest_path)
    /\ copies' = OnExisting(backup_path',
                            CopyIncluded(source_path, exclude_patterns))
    /\ result' = None
    /\ outcome' = "exists"
    /\ UNCHANGED <<fsFiles, zips, source_path, dest_path, exclude_patterns,
                   file_count, walk, root, files, pc, backups>>
    /\ UNCHANGED <<archived, tree_before>>
    /\ UNCHANGED <<cvars, ovars>>

\* copy mode, the source is a regular file: line 41 makes the destination,
\* copytree's scandir raises NotADirectoryError and lines 89-91 return None
BackupCopyNotDir ==
    /\ pc = "idle"
    /\ calls_left > 0
    /\ calls_left' = calls_left - 1
    /\ source_path \in AllFiles
    /\ \E t \in ClockValues :
          /\ t >= now
          /\ now' = t
          /\ timestamp' = t
          /\ backup_path' = CopyPath(dest_path, source_path, t)
    /\ zip_file' = None
    /\ fsDirs' = fsDirs \cup Ancestors(dest_path)
    /\ result' = None
    /\ outcome' = "not_a_directory"
    /\ UNCHANGED <<fsFiles, zips, source_path, dest_path, exclude_patterns,
                   file_count, walk, root, files, pc, copies, backups>>
    /\ UNCHANGED <<archived, tree_before>>
    /\ UNCHANGED <<cvars, ovars>>

BackupNext ==
    \/ BackupNotFound
    \/ BackupStart
    \/ WalkDir
    \/ ZipSkip
    \/ ZipWrite
    \/ ZipWriteFails
    \/ BackupDone
    \/ BackupCopy
    \/ BackupCopyFails
    \/ BackupCopyNotDir

\* one call on any tree of the pool
SpecBackup == BackupInit /\ [][BackupNext]_vars

\* the trees and patterns of the behaviours that make several calls
RunsFilePool == { <<A_T>>, <<B_L>>, <<SUB, C_T>>, <<TMP, A_T>> }
RunsPatternPool ==
    { <<"*", ".", "l">>,
      <<"t", "m", "p">>,
      <<"/", "r", "/", "s", "u", "b", "/", "*">> }

\* several calls, in zip mode or copy mode, with the same arguments on a tree
\* the caller does not change
BackupRunsInit ==
    /\ \E tree \in BoundedSubsets(RunsFilePool, MaxFiles) :
          /\ fsFiles = {<<R>> \o f : f \in tree}
          /\ fsDirs = {<<R>>} \cup UNION {Ancestors(Parent(<<R>> \o f)) : f \in tree}
    /\ zips = <<>>
    /\ source_path \in SourcePool
    /\ dest_path \in DestPool
    /\ exclude_patterns \in BoundedSubsets(RunsPatternPool, MaxPatterns)
    /\ now = 0
    /\ timestamp = 0
    /\ backup_path = None
    /\ file_count = 0
    /\ walk = <<>>
    /\ root = None
    /\ files = {}
    /\ pc = "idle"
    /\ result = None
    /\ outcome = "none"
    /\ calls_left = MaxBackupRuns
    /\ zip_file = None
    /\ copies = <<>>
    /\ backups = {}
    /\ archived = {}
    /\ tree_before = {}
    /\ CleanParked
    /\ OrganizeParked

BackupRunsNext ==
    \/ BackupNext
    \/ BackupCopyExists

SpecBackupRuns == BackupRunsInit /\ [][BackupRunsNext]_vars

\* ------------------------------------------------ backup_directory: claims

\* whether a pattern of the set matches directory d by its full path or by
\* its own segment name
DirMatches(d, patterns) ==
    \E pat \in patterns :
        fnmatch(PathStr(d), pat) \/ fnmatch(d[Len(d)], pat)

\* the directories strictly between the source root and the file an entry
\* names
DirsAbove(entry) ==
    {source_path \o SubSeq(entry, 1, k) : k \in 1..(Len(entry) - 1)}

\* C1: in zip mode no file under a directory that matches an exclusion
\* pattern, by its full path or by its segment name, is in the archive, and
\* the walk never lists such a directory or one below it.
C1_NoEntryUnderExcludedDir ==
    /\ \A a \in DOMAIN zips : \A entry \in zips[a] :
          \A d \in DirsAbove(entry) : ~ DirMatches(d, exclude_patterns)
    /\ (pc = "walk" /\ root # None) =>
          \A k \in (Len(source_path) + 1)..Len(root) :
              ~ DirMatches(SubSeq(root, 1, k), exclude_patterns)

\* C2: every entry name of an archive is a path relative to the source root:
\* it is not empty, not absolute (its first segment is not the empty text
\* before a leading "/"), has no ".." segment, and names a file below the
\* source root.
C2_EntriesRelative ==
    \A a \in DOMAIN zips : \A entry \in zips[a] :
        /\ entry # <<>>
        /\ Head(entry) # <<>>
        /\ \A k \in 1..Len(entry) : entry[k] # DOTDOT
        /\ source_path \o entry \in AllFiles

\* C2's case: a finished backup with exclusions whose archive holds an entry
\* from a sub-directory
C2_Witness ==
    /\ outcome = "ok"
    /\ zip_file # None
    /\ exclude_patterns # {}
    /\ \E entry \in zips[backup_path] : Len(entry) >= 2

\* C3: a zip backup is complete or does not exist: when reading a file
\* failed, the call returned None and no archive is left at the backup path.
C3_CompleteOrAbsent ==
    outcome = "read_error" =>
        /\ result = None
        /\ backup_path \notin DOMAIN zips

\* ------------------------------------------------- clean_directory: inputs

D == <<"d">>
X_T == <<"x", ".", "t">>
STARSTAR == <<"*", "*">>

\* line 121: 60*60*24
SecondsPerDay == 86400

\* the most files of the directory that os.remove cannot remove
MaxLocked == 1

Days(n) == n * SecondsPerDay

\* what time.time() returns at the first call at the earliest
Clock0 == Days(100)

\* the readings of time.time(): two calls may read the same value
CleanClockValues == {Clock0, Clock0 + 1}

\* the files the directory /d may hold
CleanFilePool == { <<D, A_T>>, <<D, B_L>>, <<D, C_T>>, <<D, SUB, A_T>> }

\* the ages, at Clock0, each of them may have: 1 day or one second less than
\* 30 days, 10 days or 30 days, 40 days or a modification time in the future
AgeChoices(f) ==
    IF f = <<D, A_T>> THEN {Days(1), Days(30) - 1}
    ELSE IF f = <<D, B_L>> THEN {Days(10), Days(30)}
    ELSE IF f = <<D, C_T>> THEN {Days(40), 0 - Days(1)}
    ELSE {Days(40), Days(1)}

\* st_size of each
SizeOf(f) ==
    IF f = <<D, A_T>> THEN 1
    ELSE IF f = <<D, B_L>> THEN 2
    ELSE IF f = <<D, C_T>> THEN 4
    ELSE 8

\* the patterns of a call: "*", "*.t" and "**/*.t"
CleanPatternPool ==
    { << <<"*">> >>,
      << <<"*", ".", "t">> >>,
      << STARSTAR, <<"*", ".", "t">> >> }

\* older_than: None or 30
OlderPool == { <<>>, <<30>> }

\* directory: /d, the missing /n, and /d/b.l, a regular file when it exists
DirPool == { <<D>>, <<N>>, <<D, B_L>> }

DirEntry == [kind |-> "dir", mtime |-> 0, size |-> 0, locked |-> FALSE]

FileEntry(f, age, locked) ==
    [kind |-> "file", mtime |-> Clock0 - age, size |-> SizeOf(f),
     locked |-> locked]

AgeAssignments(tree) ==
    {a \in [tree -> UNION {AgeChoices(f) : f \in tree}] :
        \A f \in tree : a[f] \in AgeChoices(f)}

\* ---------------------------------------------- clean_directory: the code

Exists(fs, p) == p \in DOMAIN fs
IsDir(fs, p) == p \in DOMAIN fs /\ fs[p].kind = "dir"

\* line 119, with the check left out
IsFileAnyKind(fs, p) == p \in DOMAIN fs

\* line 119: file_path.is_file()
IsFile(fs, p) == p \in DOMAIN fs /\ fs[p].kind = "file"

\* os.scandir(d)
Children(fs, d) == {p \in DOMAIN fs : Len(p) = Len(d) + 1 /\ IsPrefix(d, p)}

\* what a "**" part selects from d: d and every directory below it
SelfAndSubdirs(fs, d) == {p \in DOMAIN fs : IsDir(fs, p) /\ IsPrefix(d, p)}

RECURSIVE SelectFrom(_, _, _, _)
\* pathlib's selectors: the paths parts[k..] select from the paths of base.
\* A part that is not the last selects directories only; a part other than
\* "**" is matched against the entry's name by fnmatch.
SelectFrom(fs, base, parts, k) ==
    IF k > Len(parts) THEN base
    ELSE LET part == parts[k]
             last == k = Len(parts)
             next == IF part = STARSTAR
                     THEN UNION {SelfAndSubdirs(fs, d) : d \in base}
                     ELSE {c \in UNION {Children(fs, d) : d \in base} :
                              /\ last \/ IsDir(fs, c)
                              /\ fnmatch(c[Len(c)], part)}
         IN  SelectFrom(fs, next, parts, k + 1)

\* line 118: dir_path.glob(pattern)
Glob(fs, dir, parts) == SelectFrom(fs, {dir}, parts, 1)

\* lines 121-122 with <= for <
TooYoungInclusive(current, mtime, older) ==
    older # <<>> /\ (current - mtime) <= older[1] * SecondsPerDay

\* lines 120-123: the file is skipped.  (current - mtime) / 86400 < older_than
\* is compared without the division: 86400 is positive.
TooYoung(current, mtime, older) ==
    older # <<>> /\ (current - mtime) < older[1] * SecondsPerDay

\* lines 115-125
FilesToDelete(fs, dir, parts, current, older) ==
    {f \in Glob(fs, dir, parts) :
        IsFile(fs, f) /\ ~ TooYoung(current, fs[f].mtime, older)}

RECURSIVE SumSizes(_, _)
\* line 127
SumSizes(fs, S) ==
    IF S = {} THEN 0
    ELSE LET f == CHOOSE x \in S : TRUE
         IN  fs[f].size + SumSizes(fs, S \ {f})

\* os.remove(file_path)
Remove(fs, f) == [p \in DOMAIN fs \ {f} |-> fs[p]]

\* a dry run that removes what it lists
DryRunBranchRemoves(fs, to_delete) == [p \in DOMAIN fs \ to_delete |-> fs[p]]

\* lines 129-138: the dry run logs, and leaves the file system as it is
DryRunBranch(fs, to_delete) == fs

\* an error that ends the loop
OnRemoveErrorAbort(left, f) == {}

\* lines 145-146: the error is logged and the loop goes on with the rest
OnRemoveError(left, f) == left \ {f}

\* the count of the files removed, returned instead of the count listed
CleanResultDeleted(to_delete, size, deleted) == <<deleted, size>>

\* the byte total taken after the removals, over the files that are gone
CleanResultFreed(to_delete, size, deleted) ==
    <<Cardinality(to_delete),
      SumSizes(fs_before, DOMAIN fs_before \ DOMAIN cfs)>>

\* line 151
CleanResult(to_delete, size, deleted) == <<Cardinality(to_delete), size>>

CleanInit ==
    /\ \E tree \in BoundedSubsets(CleanFilePool, MaxFiles) :
       \E age \in AgeAssignments(tree) :
       \E lockedFiles \in BoundedSubsets(tree, MaxLocked) :
       \E extra \in SUBSET {<<D, X_T>>} :
          LET dirs == {<<D>>} \cup extra
                      \cup {Parent(f) : f \in tree}
          IN  cfs = [p \in dirs \cup tree |->
                        IF p \in tree
                        THEN FileEntry(p, age[p], p \in lockedFiles)
                        ELSE DirEntry]
    /\ dir_path \in DirPool
    /\ pattern \in CleanPatternPool
    /\ older_than \in OlderPool
    /\ dry_run = FALSE
    /\ clock = Clock0
    /\ current_time = Clock0
    /\ files_to_delete = {}
    /\ total_size = 0
    /\ deleted_count = 0
    /\ pending = {}
    /\ clean_pc = "idle"
    /\ clean_result = <<0, 0>>
    /\ clean_outcome = "none"
    /\ fs_before = cfs
    /\ dry_report = <<>>
    /\ clean_calls_left = 2
    /\ BackupParked
    /\ OrganizeParked

\* lines 107-110 and 153-155: the directory is missing or is no directory
CleanFails ==
    /\ clean_pc = "idle"
    /\ clean_calls_left > 0
    /\ ~ (Exists(cfs, dir_path) /\ IsDir(cfs, dir_path))
    /\ \E dry \in BOOLEAN : dry_run' = dry
    /\ clean_calls_left' = clean_calls_left - 1
    /\ fs_before' = cfs
    /\ files_to_delete' = {}
    /\ total_size' = 0
    /\ deleted_count' = 0
    /\ clean_result' = <<0, 0>>
    /\ clean_outcome' = "error"
    /\ UNCHANGED <<cfs, dir_path, pattern, older_than, clock, current_time,
                   pending, clean_pc, dry_report>>
    /\ UNCHANGED <<bvars, ovars>>

\* the whole call with dry_run=True: lines 107-138 and 151
CleanDryRun ==
    /\ clean_pc = "idle"
    /\ clean_calls_left > 0
    /\ Exists(cfs, dir_path) /\ IsDir(cfs, dir_path)
    /\ dry_run' = TRUE
    /\ clean_calls_left' = clean_calls_left - 1
    /\ fs_before' = cfs
    /\ \E t \in CleanClockValues :
          /\ t >= clock
          /\ clock' = t
          /\ current_time' = t
    /\ files_to_delete' =
          FilesToDelete(cfs, dir_path, pattern, current_time', older_than)
    /\ total_size' = SumSizes(cfs, files_to_delete')
    /\ cfs' = DryRunBranch(cfs, files_to_delete')
    /\ deleted_count' = 0
    /\ clean_result' = CleanResult(files_to_delete', total_size', 0)
    /\ clean_outcome' = "dry"
    /\ dry_report' = <<[fs |-> cfs, time |-> current_time',
                        result |-> clean_result']>>
    /\ UNCHANGED <<dir_path, pattern, older_than, pending, clean_pc>>
    /\ UNCHANGED <<bvars, ovars>>

\* a call with dry_run=False, up to the loop of line 141: lines 107-127, 140
CleanLiveStart ==
    /\ clean_pc = "idle"
    /\ clean_calls_left > 0
    /\ Exists(cfs, dir_path) /\ IsDir(cfs, dir_path)
    /\ dry_run' = FALSE
    /\ clean_calls_left' = clean_calls_left - 1
    /\ fs_before' = cfs
    /\ \E t \in CleanClockValues :
          /\ t >= clock
          /\ clock' = t
          /\ current_time' = t
    /\ files_to_delete' =
          FilesToDelete(cfs, dir_path, pattern, current_time', older_than)
    /\ total_size' = SumSizes(cfs, files_to_delete')
    /\ deleted_count' = 0
    /\ pending' = files_to_delete'
    /\ clean_pc' = "remove"
    /\ clean_outcome' = "none"
    /\ UNCHANGED <<cfs, dir_path, pattern, older_than, clean_result,
                   dry_report>>
    /\ UNCHANGED <<bvars, ovars>>

\* lines 141-144: os.remove succeeds
CleanRemove ==
    /\ clean_pc = "remove"
    /\ \E file_path \in pending :
          /\ ~ cfs[file_path].locked
          /\ cfs' = Remove(cfs, file_path)
          /\ pending' = pending \ {file_path}
    /\ deleted_count' = deleted_count + 1
    /\ UNCHANGED <<dir_path, pattern, older_than, dry_run, clock,
                   current_time, files_to_delete, total_size, clean_pc,
                   clean_result, clean_outcome, fs_before, dry_report,
                   clean_calls_left>>
    /\ UNCHANGED <<bvars, ovars>>

\* lines 141-146: os.remove raises
CleanRemoveFails ==
    /\ clean_pc = "remove"
    /\ \E file_path \in pending :
          /\ cfs[file_path].locked
          /\ pending' = OnRemoveError(pending, file_path)
    /\ UNCHANGED <<cfs, dir_path, pattern, older_than, dry_run, clock,
                   current_time, files_to_delete, total_size, deleted_count,
                   clean_pc, clean_result, clean_outcome, fs_before,
                   dry_report, clean_calls_left>>
    /\ UNCHANGED <<bvars, ovars>>

\* lines 148-151: the loop is over
CleanReturn ==
    /\ clean_pc = "remove"
    /\ pending = {}
    /\ clean_pc' = "idle"
    /\ clean_result' = CleanResult(files_to_delete, total_size, deleted_count)
    /\ clean_outcome' = "live"
    /\ UNCHANGED <<cfs, dir_path, pattern, older_than, dry_run, clock,
                   current_time, files_to_delete, total_size, deleted_count,
                   pending, fs_before, dry_report, clean_calls_left>>
    /\ UNCHANGED <<bvars, ovars>>

CleanNext ==
    \/ CleanFails
    \/ CleanDryRun
    \/ CleanLiveStart
    \/ CleanRemove
    \/ CleanRemoveFails
    \/ CleanReturn

SpecClean == CleanInit /\ [][CleanNext]_vars

\* ------------------------------------------------- clean_directory: claims

\* the files_to_delete of the call in progress or last made are those of
\* fs_before
Scanned == clean_pc = "remove" \/ clean_outcome \in {"dry", "live"}

\* the age, in seconds, the call saw for path p
AgeSeen(p) == current_time - fs_before[p].mtime

\* the qualifying set as the claims state it: matched regular files, all of
\* them without a threshold, else those at least older_than days old
Qualifying ==
    {p \in Glob(fs_before, dir_path, pattern) :
        /\ fs_before[p].kind = "file"
        /\ older_than = <<>> \/ AgeSeen(p) >= older_than[1] * SecondsPerDay}

\* C4: a live run returns the (count, byte total) pair that a dry run
\* started from the same directory state at the same clock value returned.
C4_DryEqualsLive ==
    ( /\ clean_pc = "idle"
      /\ clean_outcome = "live"
      /\ dry_report # <<>>
      /\ dry_report[1].fs = fs_before
      /\ dry_report[1].time = current_time )
    => clean_result = dry_report[1].result

\* C4's case: a live run that follows a dry run on the same state and clock,
\* and in which one removal succeeded and another failed
C4_Witness ==
    /\ clean_pc = "idle"
    /\ clean_outcome = "live"
    /\ dry_report # <<>>
    /\ dry_report[1].fs = fs_before
    /\ dry_report[1].time = current_time
    /\ deleted_count >= 1
    /\ deleted_count < Cardinality(files_to_delete)

\* C5: a dry run leaves every file and directory as it was.
C5_DryRunNoMutation == clean_outcome = "dry" => cfs = fs_before

\* C5's case: a dry run with a threshold that lists files to remove
C5_Witness ==
    /\ clean_outcome = "dry"
    /\ older_than # <<>>
    /\ files_to_delete # {}

\* C6: the files listed for removal are the matched regular files when no
\* threshold is given, else those whose age is at least older_than days of
\* 86400 seconds: a file exactly older_than*86400 seconds old is listed, one a
\* second younger is not, and of files aged 1, 10 and 40 days with
\* older_than=30 only the 40-day file is.
C6_QualifiesByAge ==
    Scanned =>
        /\ files_to_delete = Qualifying
        /\ \A p \in Glob(fs_before, dir_path, pattern) :
              (fs_before[p].kind = "file" /\ older_than # <<>>) =>
                  /\ AgeSeen(p) = older_than[1] * SecondsPerDay
                        => p \in files_to_delete
                  /\ AgeSeen(p) = older_than[1] * SecondsPerDay - 1
                        => p \notin files_to_delete
        /\ ( /\ older_than = <<30>>
             /\ pattern = << <<"*">> >>
             /\ {<<D, A_T>>, <<D, B_L>>, <<D, C_T>>} \subseteq DOMAIN fs_before
             /\ AgeSeen(<<D, A_T>>) = Days(1)
             /\ AgeSeen(<<D, B_L>>) = Days(10)
             /\ AgeSeen(<<D, C_T>>) = Days(40) )
           => files_to_delete = {<<D, C_T>>}

\* C6's case: with older_than=30, a file exactly 30 days old and a file one
\* second younger are both matched
C6_Witness ==
    /\ Scanned
    /\ older_than = <<30>>
    /\ \E p, q \in Glob(fs_before, dir_path, pattern) :
          /\ fs_before[p].kind = "file"
          /\ fs_before[q].kind = "file"
          /\ AgeSeen(p) = Days(30)
          /\ AgeSeen(q) = Days(30) - 1
          /\ p \in files_to_delete
          /\ q \notin files_to_delete

\* C7: during and after a live run every directory, every file the pattern
\* does not match and every matched file younger than the threshold is still
\* there, unchanged.
C7_OnlyQualifyingRemoved ==
    (clean_pc = "remove" \/ clean_outcome = "live") =>
        \A p \in DOMAIN fs_before :
            p \notin Qualifying => (p \in DOMAIN cfs /\ cfs[p] = fs_before[p])

\* C7's case: a finished live run that removed a file while the pattern also
\* matched a directory and a file younger than the threshold
C7_Witness ==
    /\ clean_outcome = "live"
    /\ deleted_count >= 1
    /\ older_than # <<>>
    /\ \E p, q \in Glob(fs_before, dir_path, pattern) :
          /\ fs_before[p].kind = "dir"
          /\ fs_before[q].kind = "file"
          /\ AgeSeen(q) < older_than[1] * SecondsPerDay

\* C8: after a live run every listed file that os.remove can remove is gone,
\* also when the removal of another listed file failed.
C8_FailureDoesNotAbort ==
    clean_outcome = "live" =>
        \A f \in files_to_delete :
            ~ fs_before[f].locked => f \notin DOMAIN cfs

\* C8's case: a finished live run in which one removal failed and two
\* succeeded
C8_Witness ==
    /\ clean_outcome = "live"
    /\ \E f \in files_to_delete : fs_before[f].locked
    /\ deleted_count >= 2

\* C9: in live mode the first component of the result is the number of files
\* the run deleted from the file system.
C9_CountIsRemoved ==
    clean_outcome = "live" =>
        clean_result[1] = Cardinality(DOMAIN fs_before \ DOMAIN cfs)

\* -------------------------------------------------- organize_files: inputs

O == <<"o">>
R_PDF == <<"r", ".", "p", "d", "f">>
R_PDF_UPPER == <<"r", ".", "P", "D", "F">>
R_0_PDF == <<"r", "_", "0", ".", "p", "d", "f">>
N_X == <<"n", ".", "x">>
MEMO == <<"m", "e", "m", "o">>
DOCUMENTS == <<"D", "o", "c", "u", "m", "e", "n", "t", "s">>
PDFS == <<"P", "D", "F", "s">>
TEXT == <<"T", "e", "x", "t">>
IMAGES == <<"I", "m", "a", "g", "e", "s">>

\* the most files that arrive in the directory in one behaviour
MaxArrivals == 3
\* the most organize_files calls of one behaviour
MaxOrganizeRuns == 3

\* the names a file arriving in the directory may have
ArrivalPool == { R_PDF, R_PDF_UPPER, R_0_PDF, N_X }

\* the two files an earlier use of the directory has left in Documents/PDFs
ClassifiedTree ==
    (<<O, DOCUMENTS, PDFS, R_PDF>> :> 8)
    @@ (<<O, DOCUMENTS, PDFS, R_PDF_UPPER>> :> 9)

\* directory: /o, the missing /n, and /o/n.x, a regular file when it is there
OrganizeDirPool == { <<O>>, <<N>>, <<O, N_X>> }

\* lines 175-215, the entries for pdf, txt and jpg of the default table
Rules ==
    (<<"p", "d", "f">> :> <<DOCUMENTS, PDFS>>)
    @@ (<<"t", "x", "t">> :> <<DOCUMENTS, TEXT>>)
    @@ (<<"j", "p", "g">> :> <<IMAGES>>)

\* ---------------------------------------------- organize_files: the code

\* the largest index of a "." in name, 0 when there is none (str.rfind)
RFindDot(name) ==
    LET dots == {i \in 1..Len(name) : name[i] = "."}
    IN  IF dots = {} THEN 0 ELSE CHOOSE i \in dots : \A j \in dots : j <= i

\* PurePath.suffix: from the last ".", unless it leads or ends the name
Suffix(name) ==
    LET i == RFindDot(name)
    IN  IF 1 < i /\ i < Len(name) THEN SubSeq(name, i, Len(name)) ELSE <<>>

\* PurePath.stem
Stem(name) ==
    LET i == RFindDot(name)
    IN  IF 1 < i /\ i < Len(name) THEN SubSeq(name, 1, i - 1) ELSE name

LowerChar(c) ==
    IF c = "P" THEN "p" ELSE IF c = "D" THEN "d" ELSE IF c = "F" THEN "f"
    ELSE c

\* str.lower, over the letters the names of the model hold
Lower(s) == [i \in 1..Len(s) |-> LowerChar(s[i])]

RECURSIVE LStripDots(_)
\* str.lstrip('.')
LStripDots(s) ==
    IF s # <<>> /\ Head(s) = "." THEN LStripDots(Tail(s)) ELSE s

\* line 223
Extension(name) == LStripDots(Lower(Suffix(name)))

\* the folder of a rule taken as it stands, not below the directory
DestFolderAbsolute(dir, extension) == Rules[extension]

\* the first folder of the rule alone
DestFolderTop(dir, extension) == dir \o <<Rules[extension][1]>>

\* line 226
DestFolder(dir, extension) == dir \o Rules[extension]

\* dest_path.exists()
OrgExists(p) == p \in DOMAIN ofs \/ p \in odirs

\* lines 230-236: the destination of a move, renamed with the time when a
\* file or directory of that name is there
DestPath(dest_folder, name, ts) ==
    IF OrgExists(Join(dest_folder, name))
    THEN Join(dest_folder,
              Stem(name) \o <<"_">> \o Strftime(ts) \o Suffix(name))
    ELSE Join(dest_folder, name)

\* an entry that is passed over and counted all the same
SkipCountAdds(count) == count + 1

\* lines 222-225: an entry that is no file, or whose extension has no rule,
\* leaves organized_count as it is
SkipCount(count) == count

\* a move that leaves the file where it was as well
MoveCopies(fs, src, dst) ==
    [p \in DOMAIN fs \cup {dst} |-> IF p = dst THEN fs[src] ELSE fs[p]]

\* shutil.move(src, dst), dst no directory: renames src to dst, replacing a
\* file that is there
Move(fs, src, dst) ==
    [p \in (DOMAIN fs \ {src}) \cup {dst} |-> IF p = dst THEN fs[src] ELSE fs[p]]

OrganizeInit ==
    /\ ofs = <<>>
    /\ odirs = {<<O>>}
    /\ org_dir_path \in OrganizeDirPool
    /\ org_clock = 0
    /\ organized_count = 0
    /\ glob_left = {}
    /\ org_pc = "idle"
    /\ org_result = 0
    /\ org_outcome = "none"
    /\ org_run = 0
    /\ moved = {}
    /\ next_content = 1
    /\ org_calls_left = MaxOrganizeRuns
    /\ org_before = [files |-> <<>>, dirs |-> {}]
    /\ org_settled = FALSE
    /\ org_rerun = FALSE
    /\ org_failed = None
    /\ BackupParked
    /\ CleanParked

\* between two calls a file arrives in the directory /o
Arrive ==
    /\ org_pc = "idle"
    /\ <<O>> \in odirs
    /\ next_content <= MaxArrivals
    /\ \E name \in ArrivalPool :
          /\ ~ OrgExists(<<O, name>>)
          /\ ofs' = [p \in DOMAIN ofs \cup {<<O, name>>} |->
                        IF p = <<O, name>> THEN next_content ELSE ofs[p]]
    /\ next_content' = next_content + 1
    /\ org_settled' = FALSE
    /\ UNCHANGED <<odirs, org_dir_path, org_clock, organized_count, glob_left,
                   org_pc, org_result, org_outcome, org_run, moved,
                   org_calls_left, org_before, org_rerun, org_failed>>
    /\ UNCHANGED <<bvars, cvars>>

\* lines 169-172 and 245-247: the directory is missing or is no directory
OrganizeFails ==
    /\ org_pc = "idle"
    /\ org_calls_left > 0
    /\ org_dir_path \notin odirs
    /\ org_calls_left' = org_calls_left - 1
    /\ org_run' = org_run + 1
    /\ org_result' = 0
    /\ org_outcome' = "error"
    /\ org_before' = [files |-> ofs, dirs |-> odirs]
    /\ org_settled' = FALSE
    /\ org_rerun' = FALSE
    /\ org_failed' = None
    /\ UNCHANGED <<ofs, odirs, org_dir_path, org_clock, organized_count,
                   glob_left, org_pc, moved, next_content>>
    /\ UNCHANGED <<bvars, cvars>>

\* lines 169-221: the call begins and glob('*') lists the directory
OrganizeStart ==
    /\ org_pc = "idle"
    /\ org_calls_left > 0
    /\ org_dir_path \in odirs
    /\ org_calls_left' = org_calls_left - 1
    /\ org_run' = org_run + 1
    /\ organized_count' = 0
    /\ glob_left' = {p \in DOMAIN ofs \cup odirs :
                        Len(p) = Len(org_dir_path) + 1
                        /\ IsPrefix(org_dir_path, p)}
    /\ org_pc' = "loop"
    /\ org_outcome' = "none"
    /\ org_before' = [files |-> ofs, dirs |-> odirs]
    /\ org_settled' = FALSE
    /\ org_rerun' = org_settled
    /\ org_failed' = None
    /\ UNCHANGED <<ofs, odirs, org_dir_path, org_clock, org_result, moved,
                   next_content>>
    /\ UNCHANGED <<bvars, cvars>>

\* lines 221-225: the entry is no regular file, or no rule has its extension
OrganizeSkip ==
    /\ org_pc = "loop"
    /\ \E file_path \in glob_left :
          /\ \/ file_path \notin DOMAIN ofs
             \/ Extension(file_path[Len(file_path)]) \notin DOMAIN Rules
          /\ glob_left' = glob_left \ {file_path}
    /\ organized_count' = SkipCount(organized_count)
    /\ UNCHANGED <<ofs, odirs, org_dir_path, org_clock,
                   org_pc, org_result, org_outcome, org_run, moved,
                   next_content, org_calls_left, org_before, org_settled,
                   org_rerun, org_failed>>
    /\ UNCHANGED <<bvars, cvars>>

\* lines 221-240: the file is moved to the folder of its extension;
\* datetime.now() is read when the name is taken there
OrganizeMove ==
    /\ org_pc = "loop"
    /\ \E file_path \in glob_left :
       \E t \in ClockValues :
          LET name == file_path[Len(file_path)]
              folder == DestFolder(org_dir_path, Extension(name))
              target == DestPath(folder, name, t)
          IN  /\ file_path \in DOMAIN ofs
              /\ Extension(name) \in DOMAIN Rules
              /\ t >= org_clock
              /\ org_clock' = t
              /\ odirs' = odirs \cup Ancestors(folder)
              /\ ofs' = Move(ofs, file_path, target)
              /\ moved' = moved \cup {[content |-> ofs[file_path],
                                       name |-> name, run |-> org_run,
                                       to |-> target]}
              /\ glob_left' = glob_left \ {file_path}
    /\ organized_count' = organized_count + 1
    /\ UNCHANGED <<org_dir_path, org_pc, org_result, org_outcome, org_run,
                   next_content, org_calls_left, org_before, org_settled,
                   org_rerun, org_failed>>
    /\ UNCHANGED <<bvars, cvars>>

\* line 228 or 238 raises (no permission, another device): lines 245-247
\* return 0 and the rest of the directory is not looked at
OrganizeMoveFails ==
    /\ org_pc = "loop"
    /\ \E file_path \in glob_left :
          /\ file_path \in DOMAIN ofs
          /\ Extension(file_path[Len(file_path)]) \in DOMAIN Rules
          /\ org_failed' = file_path
    /\ glob_left' = {}
    /\ org_pc' = "idle"
    /\ org_result' = 0
    /\ org_outcome' = "error"
    /\ UNCHANGED <<ofs, odirs, org_dir_path, org_clock, organized_count,
                   org_run, moved, next_content, org_calls_left, org_before,
                   org_settled, org_rerun>>
    /\ UNCHANGED <<bvars, cvars>>

\* lines 242-243
OrganizeDone ==
    /\ org_pc = "loop"
    /\ glob_left = {}
    /\ org_pc' = "idle"
    /\ org_result' = organized_count
    /\ org_outcome' = "ok"
    /\ org_settled' = TRUE
    /\ UNCHANGED <<ofs, odirs, org_dir_path, org_clock, organized_count,
                   glob_left, org_run, moved, next_content, org_calls_left,
                   org_before, org_rerun, org_failed>>
    /\ UNCHANGED <<bvars, cvars>>

OrganizeNext ==
    \/ Arrive
    \/ OrganizeFails
    \/ OrganizeStart
    \/ OrganizeSkip
    \/ OrganizeMove
    \/ OrganizeMoveFails
    \/ OrganizeDone

SpecOrganize == OrganizeInit /\ [][OrganizeNext]_vars

\* one call on a directory used before: Documents/PDFs holds two files, and
\* two more files arrive
OrganizeAgainInit ==
    /\ ofs = ClassifiedTree
    /\ odirs = {<<O>>} \cup UNION {Ancestors(Parent(f)) : f \in DOMAIN ofs}
    /\ org_dir_path \in OrganizeDirPool
    /\ org_clock = 0
    /\ organized_count = 0
    /\ glob_left = {}
    /\ org_pc = "idle"
    /\ org_result = 0
    /\ org_outcome = "none"
    /\ org_run = 0
    /\ moved = {}
    /\ next_content = MaxArrivals - 1
    /\ org_calls_left = 1
    /\ org_before = [files |-> <<>>, dirs |-> {}]
    /\ org_settled = FALSE
    /\ org_rerun = FALSE
    /\ org_failed = None
    /\ BackupParked
    /\ CleanParked

SpecOrganizeAgain == OrganizeAgainInit /\ [][OrganizeNext]_vars

\* -------------------------------------------------- organize_files: claims

\* C10: two same-named files organized in two different runs: when the later
\* run has ended, the contents of both are in the destination folder, under
\* two names.
C10_EarlierFileKept ==
    org_pc = "idle" =>
        \A m1, m2 \in moved :
            (m1.name = m2.name /\ m1.run < m2.run /\ m2.run = org_run) =>
                \E p1, p2 \in DOMAIN ofs :
                    /\ p1 # p2
                    /\ Parent(p1) = Parent(m1.to)
                    /\ Parent(p2) = Parent(m1.to)
                    /\ ofs[p1] = m1.content
                    /\ ofs[p2] = m2.content

\* C11: after any calls at any clock values, the content of every file a
\* call has moved is still in the folder it was moved to.
C11_NoSilentOverwrite ==
    \A m \in moved :
        \E p \in DOMAIN ofs :
            Parent(p) = Parent(m.to) /\ ofs[p] = m.content

\* C12: a call made right after a call that returned from line 243, no file
\* having arrived in between, moves no file, returns 0 and leaves the files
\* and the directories as they were.
C12_SecondRunMovesNothing ==
    org_rerun =>
        /\ org_failed = None
        /\ (org_pc = "loop" \/ org_settled) =>
              /\ ofs = org_before.files
              /\ odirs = org_before.dirs
              /\ organized_count = 0
              /\ \A m \in moved : m.run # org_run
        /\ (org_pc = "idle" /\ org_settled) =>
              (org_result = 0 /\ org_outcome = "ok")

\* r.pdf was moved to Documents/PDFs/r.pdf by one call, and the call after it
\* has returned
C12_Witness ==
    /\ org_rerun
    /\ org_pc = "idle"
    /\ org_settled
    /\ <<O, DOCUMENTS, PDFS, R_PDF>> \in DOMAIN ofs
    /\ \E m \in moved :
          /\ m.run = org_run - 1
          /\ m.name = R_PDF
          /\ m.to = <<O, DOCUMENTS, PDFS, R_PDF>>

\* the files directly in the directory, when the call began, whose extension
\* has a rule
RuleFilesBefore ==
    {p \in DOMAIN org_before.files :
        /\ Len(p) = Len(org_dir_path) + 1
        /\ IsPrefix(org_dir_path, p)
        /\ Extension(p[Len(p)]) \in DOMAIN Rules}

\* C13: when the move of one file has failed, that file is where it was and
\* every other file whose extension has a rule has been moved.
C13_FailureIsLocal ==
    (org_pc = "idle" /\ org_failed # None) =>
        /\ org_failed \in DOMAIN ofs
        /\ \A p \in RuleFilesBefore \ {org_failed} : p \notin DOMAIN ofs

\* C14: the value a call returns is the number of files the call has moved,
\* also when the call ended with an error.
C14_ReturnsMovedCount ==
    (org_pc = "idle" /\ org_run > 0) =>
        org_result = Cardinality({m \in moved : m.run = org_run})

\* C20: every file that was in a subdirectory of the directory when the call
\* began is at the same path with the same content during and after the call.
C20_SubdirectoriesUntouched ==
    \A p \in DOMAIN org_before.files :
        (Len(p) > Len(org_dir_path) + 1 /\ IsPrefix(org_dir_path, p)) =>
            (p \in DOMAIN ofs /\ ofs[p] = org_before.files[p])

\* ------------------------------------- backup_directory: copy mode, claims

\* C17: a finished copy-mode backup holds the same relative file paths as a
\* finished zip-mode backup of the same tree with the same patterns.
C17_CopyEqualsZip ==
    \A a \in DOMAIN zips \cap backups : \A c \in DOMAIN copies \cap backups :
        zips[a] = copies[c]

\* C18: a copy-mode call whose backup directory <sourceName>_<timestamp> is
\* there already ends with an error and leaves that directory, and every
\* other backup, as it was.
C18_ExistingCopyKept ==
    [][(/\ calls_left' = calls_left - 1
        /\ zip_file' = None
        /\ source_path \in fsDirs
        /\ CopyPath(dest_path, source_path, timestamp') \in DOMAIN copies)
       => (/\ result' = None
           /\ outcome' = "exists"
           /\ copies' = copies
           /\ zips' = zips
           /\ fsFiles' = fsFiles)]_vars

\* a second copy-mode call in the second of the first has failed on the
\* directory the first one filled
C18_Witness ==
    /\ outcome = "exists"
    /\ pc = "idle"
    /\ zip_file = None
    /\ backup_path \in DOMAIN copies
    /\ copies[backup_path] # {}

\* whether the patterns exclude file g of the source tree: one matches its
\* full path, or matches a directory between the root and the file
Excluded(g) ==
    \/ \E pat \in exclude_patterns : fnmatch(PathStr(g), pat)
    \/ \E d \in DirsAbove(RelPath(g, source_path)) :
          DirMatches(d, exclude_patterns)

\* C19: the archive of a successful zip backup holds exactly the files of the
\* source tree that are not excluded, each once, under its path relative to
\* the source root.
C19_ManifestExact ==
    (outcome = "ok" /\ zip_file # None /\ source_path \in fsDirs) =>
        /\ zips[backup_path] =
              {RelPath(g, source_path) :
                  g \in {f \in fsFiles : IsPrefix(source_path, f)
                                          /\ ~ Excluded(f)}}
        /\ file_count = Cardinality(zips[backup_path])

\* ------------------------- three callers, one operation each, disjoint trees

\* backup_directory on /r into /b, clean_directory on /d and organize_files
\* on /o, each called once, their steps interleaved; every required path is
\* a directory, or missing, or a regular file
CallersInit ==
    /\ fsFiles = {<<R, A_T>>, <<R, B_L>>}
    /\ fsDirs = {<<R>>}
    /\ zips = <<>>
    /\ source_path \in SourcePool
    /\ dest_path = <<B>>
    /\ exclude_patterns = {<<"*", ".", "l">>}
    /\ now = 0
    /\ timestamp = 0
    /\ backup_path = None
    /\ file_count = 0
    /\ walk = <<>>
    /\ root = None
    /\ files = {}
    /\ pc = "idle"
    /\ result = None
    /\ outcome = "none"
    /\ calls_left = 1
    /\ zip_file = None
    /\ copies = <<>>
    /\ backups = {}
    /\ archived = {}
    /\ tree_before = {}
    /\ cfs = [p \in {<<D>>, <<D, A_T>>, <<D, B_L>>} |->
                 IF p = <<D>> THEN DirEntry
                 ELSE IF p = <<D, A_T>> THEN FileEntry(p, Days(40), FALSE)
                 ELSE FileEntry(p, Days(10), TRUE)]
    /\ dir_path \in DirPool
    /\ pattern = << <<"*">> >>
    /\ older_than = <<>>
    /\ dry_run = FALSE
    /\ clock = Clock0
    /\ current_time = Clock0
    /\ files_to_delete = {}
    /\ total_size = 0
    /\ deleted_count = 0
    /\ pending = {}
    /\ clean_pc = "idle"
    /\ clean_result = <<0, 0>>
    /\ clean_outcome = "none"
    /\ fs_before = cfs
    /\ dry_report = <<>>
    /\ clean_calls_left = 1
    /\ ofs = (<<O, R_PDF>> :> 1) @@ (<<O, N_X>> :> 2) @@ (<<O, MEMO>> :> 0)
    /\ odirs = {<<O>>}
    /\ org_dir_path \in OrganizeDirPool
    /\ org_clock = 0
    /\ organized_count = 0
    /\ glob_left = {}
    /\ org_pc = "idle"
    /\ org_result = 0
    /\ org_outcome = "none"
    /\ org_run = 0
    /\ moved = {}
    /\ next_content = MaxArrivals
    /\ org_calls_left = 1
    /\ org_before = [files |-> <<>>, dirs |-> {}]
    /\ org_settled = FALSE
    /\ org_rerun = FALSE
    /\ org_failed = None

CallersNext ==
    \/ BackupNext
    \/ CleanNext
    \/ OrganizeNext

SpecCallers == CallersInit /\ [][CallersNext]_vars

\* C15: a call whose required path does not exist ends with the failure
\* outcome and changes nothing: backup_directory makes no destination and no
\* archive or copy, clean_directory removes no file, organize_files moves
\* none.
C15_MissingPathFails ==
    [][/\ (calls_left' = calls_left - 1
           /\ source_path \notin fsDirs \cup AllFiles)
          => (/\ result' = None
              /\ outcome' = "not_found"
              /\ pc' = "idle"
              /\ fsDirs' = fsDirs
              /\ fsFiles' = fsFiles
              /\ zips' = zips
              /\ copies' = copies)
       /\ (clean_calls_left' = clean_calls_left - 1
           /\ ~ Exists(cfs, dir_path))
          => (/\ clean_result' = <<0, 0>>
              /\ clean_outcome' = "error"
              /\ clean_pc' = "idle"
              /\ cfs' = cfs)
       /\ (org_run' = org_run + 1 /\ ~ OrgExists(org_dir_path))
          => (/\ org_result' = 0
              /\ org_outcome' = "error"
              /\ org_pc' = "idle"
              /\ ofs' = ofs
              /\ odirs' = odirs)]_vars

\* the three calls were made on missing paths and have failed
C15_Witness ==
    /\ source_path \notin fsDirs \cup AllFiles
    /\ outcome = "not_found"
    /\ ~ Exists(cfs, dir_path)
    /\ clean_outcome = "error"
    /\ ~ OrgExists(org_dir_path)
    /\ org_outcome = "error"
    /\ org_run = 1

\* C16: a call given a regular file where a directory is required has failed
\* with the not-a-directory outcome when it is over, and has made no backup,
\* removed no file and moved none.
C16_FileAsDirectoryFails ==
    /\ (pc = "idle" /\ calls_left = 0 /\ source_path \in fsFiles) =>
          (/\ result = None
           /\ outcome = "not_a_directory"
           /\ zips = <<>>
           /\ copies = <<>>)
    /\ (clean_pc = "idle" /\ clean_calls_left = 0 /\ Exists(cfs, dir_path)
        /\ ~ IsDir(cfs, dir_path)) =>
          (/\ clean_result = <<0, 0>>
           /\ clean_outcome = "error"
           /\ cfs = fs_before)
    /\ (org_pc = "idle" /\ org_run = 1 /\ org_dir_path \in DOMAIN ofs) =>
          (/\ org_result = 0
           /\ org_outcome = "error"
           /\ \A p \in DOMAIN org_before.files :
                 p \in DOMAIN ofs /\ ofs[p] = org_before.files[p]
           /\ moved = {})

\* the files directly in the directory, when the call began, whose extension
\* has no rule
NoRuleFilesBefore ==
    {p \in DOMAIN org_before.files :
        /\ Len(p) = Len(org_dir_path) + 1
        /\ IsPrefix(org_dir_path, p)
        /\ Extension(p[Len(p)]) \notin DOMAIN Rules}

\* C21: a file directly in the directory whose lowercased extension has no
\* rule, or that has no extension, stays at its path with its content, is
\* never moved, and is not counted: the count is the number of moves made.
C21_UnruledFilesStay ==
    /\ \A p \in NoRuleFilesBefore :
          /\ p \in DOMAIN ofs
          /\ ofs[p] = org_before.files[p]
          /\ \A m \in moved :
                m.run = org_run => m.content # org_before.files[p]
    /\ org_pc = "loop" =>
          organized_count = Cardinality({m \in moved : m.run = org_run})
    /\ (org_pc = "idle" /\ org_outcome = "ok") =>
          org_result = Cardinality(RuleFilesBefore)

\* a call has returned that found memo and n.x beside a file it moved
C21_Witness ==
    /\ org_pc = "idle"
    /\ org_outcome = "ok"
    /\ org_result = 1
    /\ {<<O, MEMO>>, <<O, N_X>>} \subseteq NoRuleFilesBefore
    /\ {<<O, MEMO>>, <<O, N_X>>} \subseteq DOMAIN ofs

\* C22: a call that returns from line 243 has moved every file directly in
\* the directory whose lowercased extension has a rule; and every move goes
\* to directory/rules[extension]/<name> when nothing of that name is there,
\* the folder being made, whatever the case of the extension.
C22_MovedByRule ==
    /\ [](org_settled =>
            \A p \in RuleFilesBefore :
                /\ p \notin DOMAIN ofs
                /\ \E m \in moved :
                      /\ m.run = org_run
                      /\ m.name = p[Len(p)]
                      /\ m.content = org_before.files[p])
    /\ [][moved' # moved =>
            LET m == CHOOSE r \in moved' \ moved : TRUE
                src == Join(org_dir_path, m.name)
                target == (org_dir_path \o Rules[Extension(m.name)])
                          \o <<m.name>>
            IN  ~ OrgExists(target) =>
                    /\ m.to = target
                    /\ target \in DOMAIN ofs'
                    /\ ofs'[target] = ofs[src]
                    /\ src \notin DOMAIN ofs'
                    /\ Parent(target) \in odirs']_vars

\* r.PDF has been moved to Documents/PDFs/r.PDF, a folder the call made
C22_Witness ==
    /\ org_settled
    /\ <<O, DOCUMENTS, PDFS>> \notin org_before.dirs
    /\ <<O, DOCUMENTS, PDFS, R_PDF_UPPER>> \in DOMAIN ofs
    /\ \E m \in moved :
          /\ m.run = org_run
          /\ m.name = R_PDF_UPPER
          /\ m.to = <<O, DOCUMENTS, PDFS, R_PDF_UPPER>>

\* C25: all the names one organize_files call makes when it renames carry the
\* timestamp of one instant.
C25_SingleInstant ==
    \A r \in 1..org_run :
        \E t \in ClockValues :
            \A m \in moved :
                (m.run = r /\ m.to[Len(m.to)] # m.name) =>
                    m.to[Len(m.to)] =
                        ((Stem(m.name) \o <<"_">>) \o Strftime(t))
                        \o Suffix(m.name)

\* C26: the byte total is complete when the first removal is attempted and is
\* what the call returns, dry or live: the sum of the sizes the qualifying
\* files had before any removal.
C26_SizesBeforeRemoval ==
    /\ clean_pc = "remove" =>
          total_size = SumSizes(fs_before, Qualifying)
    /\ (clean_pc = "idle" /\ clean_outcome \in {"dry", "live"}) =>
          clean_result[2] = SumSizes(fs_before, Qualifying)

\* a live call has returned after removing one of several qualifying files
C26_Witness ==
    /\ clean_pc = "idle"
    /\ clean_outcome = "live"
    /\ Cardinality(Qualifying) >= 2
    /\ DOMAIN cfs # DOMAIN fs_before
    /\ \E p \in Qualifying : p \in DOMAIN cfs

\* ------------------------------------ backup_directory: repeated zip backups

\* C23: two zip backups that found the same files under the source, made
\* with the same patterns, hold the same entry names.
C23_SameManifest ==
    \A r1, r2 \in archived :
        r1.tree = r2.tree => r1.entries = r2.entries

\* C27: every entry of an archive names a file that was under the source
\* when the call began, and none names the archive itself.
C27_NoSelfEntry ==
    \A a \in DOMAIN zips : \A entry \in zips[a] :
        /\ source_path \o entry \in tree_before
        /\ source_path \o entry # a

\* C28: between calls, every archive a successful zip backup has returned is
\* still there and holds the entries it held.
C28_EarlierArchiveKept ==
    pc = "idle" =>
        \A r \in archived :
            r.path \in DOMAIN zips /\ zips[r.path] = r.entries

\* --------------------------------------- three callers: concurrent calls

\* C24: with the three operations called by different callers on the trees
\* /r and /b, /d, and /o, every step that changes the state of one operation
\* is a step that operation takes when it runs alone from the same state,
\* and leaves the state of the other two as it is; and no operation makes,
\* changes or removes a path outside its own trees.  So each call returns
\* what it returns alone, and leaves its tree as it does alone.
C24_DisjointCallsIndependent ==
    /\ [][BackupNext]_bvars
    /\ [][CleanNext]_cvars
    /\ [][OrganizeNext]_ovars
    /\ [](/\ \A p \in DOMAIN zips \cup DOMAIN copies : IsPrefix(dest_path, p)
          /\ \A d \in fsDirs :
                \/ IsPrefix(<<R>>, d)
                \/ IsPrefix(d, dest_path)
          /\ \A p \in DOMAIN cfs : IsPrefix(<<D>>, p)
          /\ DOMAIN cfs \subseteq DOMAIN fs_before
          /\ \A p \in DOMAIN fs_before \ DOMAIN cfs : IsPrefix(dir_path, p)
          /\ \A p \in DOMAIN ofs \cup odirs : IsPrefix(<<O>>, p)
          /\ \A m \in moved : IsPrefix(org_dir_path, m.to))

\* the three calls are in progress at once, each with something done
C24_Witness ==
    /\ pc = "walk"
    /\ zips[backup_path] # {}
    /\ clean_pc = "remove"
    /\ deleted_count > 0
    /\ org_pc = "loop"
    /\ organized_count > 0

=============================================================================
